---- MODULE Spec2Model ----
(***************************************************************************)
(* A model of apt-webindex (src/apt-webindex.py, and its first draft      *)
(* src/index.py): the script that reads the Packages indexes of every     *)
(* distribution of an APT repository and prints one HTML table per        *)
(* distribution, one row per package.                                      *)
(*                                                                         *)
(* Python strings are modelled as sequences of one-character strings, so  *)
(* that comparisons, regular expressions and joins are computed character *)
(* by character as Python computes them.                                   *)
(***************************************************************************)
EXTENDS Integers, Sequences, FiniteSets, TLC

(***************************************************************************)
(* Python str: code points and the built-in comparisons.                   *)
(***************************************************************************)

\* The printable ASCII characters, in code point order, from 32 (space); the
\* grave accent (96), which a TLA+ string cannot hold, is spelled out.
Ascii ==
    << " ", "!", "\"", "#", "$", "%", "&", "'", "(", ")", "*", "+", ",", "-",
       ".", "/", "0", "1", "2", "3", "4", "5", "6", "7", "8", "9", ":", ";",
       "<", "=", ">", "?", "@", "A", "B", "C", "D", "E", "F", "G", "H", "I",
       "J", "K", "L", "M", "N", "O", "P", "Q", "R", "S", "T", "U", "V", "W",
       "X", "Y", "Z", "[", "\\", "]", "^", "_", "grave", "a", "b", "c", "d", "e",
       "f", "g", "h", "i", "j", "k", "l", "m", "n", "o", "p", "q", "r", "s",
       "t", "u", "v", "w", "x", "y", "z", "{", "|", "}", "~" >>

\* ord(c)
Ord(c) == 31 + (CHOOSE i \in 1..Len(Ascii) : Ascii[i] = c)

\* str.isdigit() / isdigit(3), on one character
isdigit(c) == c \in {"0", "1", "2", "3", "4", "5", "6", "7", "8", "9"}

\* isalpha(3), on one character
isalpha(c) == Ord(c) \in 65..90 \/ Ord(c) \in 97..122

\* str.__lt__: lexicographic by code point, a proper prefix sorting first.
RECURSIVE StrLessFrom(_, _, _)
StrLessFrom(s, t, i) ==
    IF i > Len(t) THEN FALSE
    ELSE IF i > Len(s) THEN TRUE
    ELSE IF s[i] # t[i] THEN Ord(s[i]) < Ord(t[i])
    ELSE StrLessFrom(s, t, i + 1)

StrLess(s, t) == StrLessFrom(s, t, 1)

\* list.__lt__ / tuple.__lt__ on sequences of str: the first differing item decides.
RECURSIVE ListLessFrom(_, _, _)
ListLessFrom(r, q, i) ==
    IF i > Len(q) THEN FALSE
    ELSE IF i > Len(r) THEN TRUE
    ELSE IF r[i] # q[i] THEN StrLess(r[i], q[i])
    ELSE ListLessFrom(r, q, i + 1)

ListLess(r, q) == ListLessFrom(r, q, 1)

\* s[i:j] with 1-based inclusive bounds; empty when j < i.
Slice(s, i, j) == IF j < i THEN << >> ELSE SubSeq(s, i, j)

\* The items of a sequence, as a set
Range(s) == { s[i] : i \in DOMAIN s }

\* All orders in which the items of a finite set can be listed.
Orders(S) ==
    { f \in [1..Cardinality(S) -> S] : \A x \in S : \E i \in DOMAIN f : f[i] = x }

(***************************************************************************)
(* apt_pkg.version_compare: Debian version ordering.  The library is not   *)
(* part of the repository; it is modelled after section 4.1 of the         *)
(* specification, in the shape of the library's fragment comparison.       *)
(***************************************************************************)

\* The weight of one character of a non-digit run: '~' lowest, then the end
\* of the string (and digits), then letters, then everything else.
order(c) ==
    IF isdigit(c) THEN 0
    ELSE IF isalpha(c) THEN Ord(c)
    ELSE IF c = "~" THEN -1
    ELSE Ord(c) + 256

\* The index of the first character at or after i that is not '0'.
RECURSIVE SkipZeros(_, _)
SkipZeros(s, i) == IF i <= Len(s) /\ s[i] = "0" THEN SkipZeros(s, i + 1) ELSE i

DigitAt(s, i) == i <= Len(s) /\ isdigit(s[i])

RECURSIVE CmpNonDigits(_, _, _, _)
RECURSIVE CmpDigits(_, _, _, _, _)

\* One pass of the fragment comparison from positions i and j: a non-digit
\* run compared character by character, then a digit run compared as a
\* number (leading zeros skipped, the longer run greater, else the first
\* differing digit), then the next pass.
CmpFrom(A, B, i, j) ==
    IF i <= Len(A) /\ j <= Len(B)
    THEN CmpNonDigits(A, B, i, j)
    ELSE IF i > Len(A) /\ j > Len(B) THEN 0
    ELSE IF i > Len(A) THEN (IF B[j] = "~" THEN 1 ELSE -1)
    ELSE (IF A[i] = "~" THEN -1 ELSE 1)

CmpNonDigits(A, B, i, j) ==
    IF i <= Len(A) /\ j <= Len(B) /\ (~isdigit(A[i]) \/ ~isdigit(B[j]))
    THEN IF order(A[i]) # order(B[j])
         THEN order(A[i]) - order(B[j])
         ELSE CmpNonDigits(A, B, i + 1, j + 1)
    ELSE CmpDigits(A, B, SkipZeros(A, i), SkipZeros(B, j), 0)

CmpDigits(A, B, i, j, first_diff) ==
    IF DigitAt(A, i) /\ DigitAt(B, j)
    THEN CmpDigits(A, B, i + 1, j + 1,
                   IF first_diff = 0 THEN Ord(A[i]) - Ord(B[j]) ELSE first_diff)
    ELSE IF DigitAt(A, i) THEN 1
    ELSE IF DigitAt(B, j) THEN -1
    ELSE IF first_diff # 0 THEN first_diff
    ELSE CmpFrom(A, B, i, j)

\* The comparison of two fragments (an epoch, an upstream version or a revision).
CmpFragment(A, B) == CmpFrom(A, B, 1, 1)

\* The index of the first ':' of a version, 0 when it has none.
FirstColon(V) ==
    IF \E i \in DOMAIN V : V[i] = ":"
    THEN CHOOSE i \in DOMAIN V : V[i] = ":" /\ \A k \in 1..(i - 1) : V[k] # ":"
    ELSE 0

\* The index of the last '-' of a string, 0 when it has none.
LastDash(V) ==
    IF \E i \in DOMAIN V : V[i] = "-"
    THEN CHOOSE i \in DOMAIN V : V[i] = "-" /\ \A k \in (i + 1)..Len(V) : V[k] # "-"
    ELSE 0

\* The epoch of a version: the text before its first ':' without its leading
\* zeros; empty when there is no ':' (a missing epoch is epoch 0).
Epoch(V) ==
    LET c == FirstColon(V)
    IN  IF c <= 1 THEN << >> ELSE Slice(V, SkipZeros(Slice(V, 1, c - 1), 1), c - 1)

\* What follows the epoch: upstream version and revision.
AfterEpoch(V) ==
    LET c == FirstColon(V)
    IN  IF c <= 1 THEN V ELSE Slice(V, c + 1, Len(V))

\* The upstream version: up to the last '-', or everything without one.
Upstream(V) ==
    LET r == AfterEpoch(V)
        d == LastDash(r)
    IN  IF d = 0 THEN r ELSE Slice(r, 1, d - 1)

\* Whether the version carries a revision (a '-' after a non-empty upstream).
HasRevision(V) == LastDash(AfterEpoch(V)) > 1

\* The revision; a missing revision counts as "0".
Revision(V) ==
    LET r == AfterEpoch(V)
    IN  IF HasRevision(V) THEN Slice(r, LastDash(r) + 1, Len(r)) ELSE << "0" >>

\* A mutant of version_compare that forgets the epoch of its second argument.
version_compare_noepoch(a, b) ==
    LET u == CmpFragment(Epoch(a) \o Upstream(a), Upstream(b))
    IN  IF u # 0 THEN u ELSE CmpFragment(Revision(a), Revision(b))

\* apt_pkg.version_compare(a, b): negative, zero or positive as a is lower
\* than, equal to or greater than b: epochs first, then upstream versions,
\* then revisions.
version_compare(a, b) ==
    LET e == CmpFragment(Epoch(a), Epoch(b))
        u == CmpFragment(Upstream(a), Upstream(b))
    IN  IF e # 0 THEN e
        ELSE IF u # 0 THEN u
        ELSE IF ~HasRevision(a) /\ ~HasRevision(b) THEN 0
        ELSE CmpFragment(Revision(a), Revision(b))

\* The three outcomes of a comparison
Sign(n) == IF n < 0 THEN "LESS" ELSE IF n > 0 THEN "GREATER" ELSE "EQUAL"

(***************************************************************************)
(* get_time_info and the formatting it uses.                               *)
(***************************************************************************)

\* '%d' % n for an integer n: its decimal digits, '-' first when negative.
RECURSIVE Digits(_)
Digits(n) ==
    IF n < 10 THEN << Ascii[17 + n] >>
    ELSE Digits(n \div 10) \o << Ascii[17 + (n % 10)] >>

Fmt_d(n) == IF n < 0 THEN << "-" >> \o Digits(-n) ELSE Digits(n)

\* int(x) for a quotient of integers: the quotient truncated towards zero,
\* which is what '%d' prints of the float diff/unit.
TruncDiv(n, unit) == IF n >= 0 THEN n \div unit ELSE -((-n) \div unit)

MonthsAgo  == << "+", " ", "m", "o", "n", "t", "h", "s", " ", "a", "g", "o" >>
DaysAgo    == << "+", " ", "d", "a", "y", "s", " ", "a", "g", "o" >>
HoursAgo   == << "+", " ", "h", "o", "u", "r", "s", " ", "a", "g", "o" >>
MinutesAgo == << "+", " ", "m", "i", "n", "u", "t", "e", "s", " ", "a", "g", "o" >>
SecondsAgo == << " ", "s", "e", "c", "o", "n", "d", "s", " ", "a", "g", "o" >>

\* 'hot%d' % i: the CSS class of a freshness tier
Hot(i) == << "h", "o", "t" >> \o Fmt_d(i)

\* A mutant of get_time_info whose tests are >= instead of >.
get_time_info_inclusive(diff) ==
    IF diff >= 60 * 24 * 3600
    THEN << Fmt_d(TruncDiv(diff, 30 * 24 * 3600)) \o MonthsAgo, Hot(1) >>
    ELSE IF diff >= 2 * 24 * 3600
    THEN << Fmt_d(TruncDiv(diff, 1 * 24 * 3600)) \o DaysAgo, Hot(2) >>
    ELSE IF diff >= 2 * 3600
    THEN << Fmt_d(TruncDiv(diff, 1 * 3600)) \o HoursAgo, Hot(3) >>
    ELSE IF diff >= 2 * 60
    THEN << Fmt_d(TruncDiv(diff, 1 * 60)) \o MinutesAgo, Hot(4) >>
    ELSE << Fmt_d(diff) \o SecondsAgo, Hot(5) >>

\* get_time_info(diff): the pair (desc, color) for an age of diff seconds.
get_time_info(diff) ==
    IF diff > 60 * 24 * 3600
    THEN << Fmt_d(TruncDiv(diff, 30 * 24 * 3600)) \o MonthsAgo, Hot(1) >>
    ELSE IF diff > 2 * 24 * 3600
    THEN << Fmt_d(TruncDiv(diff, 1 * 24 * 3600)) \o DaysAgo, Hot(2) >>
    ELSE IF diff > 2 * 3600
    THEN << Fmt_d(TruncDiv(diff, 1 * 3600)) \o HoursAgo, Hot(3) >>
    ELSE IF diff > 2 * 60
    THEN << Fmt_d(TruncDiv(diff, 1 * 60)) \o MinutesAgo, Hot(4) >>
    ELSE << Fmt_d(diff) \o SecondsAgo, Hot(5) >>

\* The tier (1..5) a color class stands for, 0 for anything else.
Tier(color) == IF \E i \in 1..5 : color = Hot(i) THEN CHOOSE i \in 1..5 : color = Hot(i) ELSE 0

(***************************************************************************)
(* The built-ins render_dist_html uses.                                    *)
(***************************************************************************)

\* x.startswith(prefix)
startswith(x, prefix) == Len(x) >= Len(prefix) /\ SubSeq(x, 1, Len(prefix)) = prefix

Binary == << "b", "i", "n", "a", "r", "y" >>
BinaryDash == Binary \o << "-" >>

\* re.sub(r'^binary-', '', x)
re_sub_binary(x) == IF startswith(x, BinaryDash) THEN Slice(x, Len(BinaryDash) + 1, Len(x)) ELSE x

\* The index of the last '/' of a path, 0 when it has none.
LastSlash(path) ==
    IF \E i \in DOMAIN path : path[i] = "/"
    THEN CHOOSE i \in DOMAIN path : path[i] = "/" /\ \A k \in (i + 1)..Len(path) : path[k] # "/"
    ELSE 0

\* re.sub(r'/[^/]+$', '', path): the pattern matches a '/' followed by one or
\* more characters other than '/' up to the end, so only the last '/' can
\* match, and only when something follows it.
re_sub_dirname(path) ==
    LET i == LastSlash(path)
    IN  IF i > 0 /\ i < Len(path) THEN Slice(path, 1, i - 1) ELSE path

\* ' | '.join(items)
RECURSIVE Join(_)
Join(items) ==
    IF items = << >> THEN << >>
    ELSE IF Len(items) = 1 THEN items[1]
    ELSE items[1] \o << " ", "|", " " >> \o Join(Tail(items))

\* sorted(xs) for a list of str: a stable insertion, x after the items <= x.
RECURSIVE insort_str(_, _)
insort_str(xs, x) ==
    IF xs = << >> THEN << x >>
    ELSE IF StrLess(x, xs[1]) THEN << x >> \o xs
    ELSE << xs[1] >> \o insort_str(Tail(xs), x)

RECURSIVE sorted_str(_)
sorted_str(xs) ==
    IF xs = << >> THEN << >>
    ELSE insort_str(sorted_str(SubSeq(xs, 1, Len(xs) - 1)), xs[Len(xs)])

\* sorted(xs) for a list of lists (or tuples) of str.
RECURSIVE insort_list(_, _)
insort_list(xs, x) ==
    IF xs = << >> THEN << x >>
    ELSE IF ListLess(x, xs[1]) THEN << x >> \o xs
    ELSE << xs[1] >> \o insort_list(Tail(xs), x)

RECURSIVE sorted_list(_)
sorted_list(xs) ==
    IF xs = << >> THEN << >>
    ELSE insort_list(sorted_list(SubSeq(xs, 1, Len(xs) - 1)), xs[Len(xs)])

\* sorted(xs, reverse=True, key=functools.cmp_to_key(apt_pkg.version_compare)):
\* descending and stable, so x goes after the items that are not lower than x.
RECURSIVE insort_versions(_, _)
insort_versions(xs, x) ==
    IF xs = << >> THEN << x >>
    ELSE IF version_compare(xs[1], x) < 0 THEN << x >> \o xs
    ELSE << xs[1] >> \o insort_versions(Tail(xs), x)

RECURSIVE sorted_versions_from(_)
sorted_versions_from(xs) ==
    IF xs = << >> THEN << >>
    ELSE insort_versions(sorted_versions_from(SubSeq(xs, 1, Len(xs) - 1)), xs[Len(xs)])

\* A mutant of sorted_versions without reverse=True: ascending.
RECURSIVE sorted_versions_ascending(_)
sorted_versions_ascending(xs) ==
    IF xs = << >> THEN << >>
    ELSE LET rest == sorted_versions_ascending(SubSeq(xs, 1, Len(xs) - 1))
             x == xs[Len(xs)]
             k == Cardinality({ i \in DOMAIN rest : version_compare(rest[i], x) <= 0 })
         IN  SubSeq(rest, 1, k) \o << x >> \o SubSeq(rest, k + 1, Len(rest))

sorted_versions(xs) == sorted_versions_from(xs)

\* list(S) for a set of str, in an order that does not matter because the
\* list is sorted next by a total order: the least item first.
RECURSIVE list_of_strs(_)
list_of_strs(S) ==
    IF S = {} THEN << >>
    ELSE LET m == CHOOSE x \in S : \A y \in S : ~StrLess(y, x)
         IN  << m >> \o list_of_strs(S \ {m})

\* list(S) for a set of tuples of str, likewise.
RECURSIVE list_of_tuples(_)
list_of_tuples(S) ==
    IF S = {} THEN << >>
    ELSE LET m == CHOOSE x \in S : \A y \in S : ~ListLess(y, x)
         IN  << m >> \o list_of_tuples(S \ {m})

(***************************************************************************)
(* render_dist_html: the records and the columns of one row.  A record is  *)
(* the list [source_arch, package, version, actual_arch, filename] (items  *)
(* 1 to 5 here, 0 to 4 in Python).                                         *)
(***************************************************************************)

amd64 == << "a", "m", "d", "6", "4" >>
arm64 == << "a", "r", "m", "6", "4" >>
all   == << "a", "l", "l" >>

StanzaFields == { "Package", "Version", "Architecture", "Filename" }

\* Whether reading the four fields of a stanza raises KeyError.
stanza_raises(stanza) == ~(StanzaFields \subseteq DOMAIN stanza)

\* [arch, fp, fv, fa, ff] for one stanza of the index of arch.
record_of(arch, stanza) ==
    << arch, stanza["Package"], stanza["Version"], stanza["Architecture"], stanza["Filename"] >>

\* The records appended while reading one index, up to its first stanza that
\* raises, and whether one did.
RECURSIVE read_tagfile(_, _)
read_tagfile(arch, stanzas) ==
    IF stanzas = << >> THEN [raised |-> FALSE, data |-> << >>]
    ELSE IF stanza_raises(stanzas[1]) THEN [raised |-> TRUE, data |-> << >>]
    ELSE LET rest == read_tagfile(arch, Tail(stanzas))
         IN  [raised |-> rest.raised, data |-> << record_of(arch, stanzas[1]) >> \o rest.data]

\* archs: the entries of dists/<dist>/main that start with 'binary', in the
\* order os.listdir gave them, without their 'binary-' prefix.
archs_of(listing) ==
    LET kept == SelectSeq(listing, LAMBDA x : startswith(x, Binary))
    IN  [i \in 1..Len(kept) |-> re_sub_binary(kept[i])]

\* A mutant of open_raises that takes a missing Packages file for an empty one.
open_raises_never(tree, arch) == FALSE

\* Whether open('dists/%s/main/binary-%s/Packages') raises: no such entry,
\* or no Packages file in it.
open_raises(tree, arch) ==
    \/ (BinaryDash \o arch) \notin DOMAIN tree.entries
    \/ ~tree.entries[BinaryDash \o arch].exists

\* The stanzas open() and apt_pkg.TagFile give for an arch.
stanzas_of(tree, arch) ==
    IF (BinaryDash \o arch) \in DOMAIN tree.entries /\ tree.entries[BinaryDash \o arch].exists
    THEN tree.entries[BinaryDash \o arch].stanzas
    ELSE << >>

\* The loop over archs that fills data: it stops at the first index that
\* cannot be opened or whose reading raises.
RECURSIVE load_data(_, _)
load_data(tree, archs) ==
    IF archs = << >> THEN [raised |-> FALSE, data |-> << >>]
    ELSE IF open_raises(tree, archs[1]) THEN [raised |-> TRUE, data |-> << >>]
    ELSE LET first == read_tagfile(archs[1], stanzas_of(tree, archs[1]))
             rest == load_data(tree, Tail(archs))
         IN  IF first.raised THEN first
             ELSE [raised |-> rest.raised, data |-> first.data \o rest.data]

\* A mutant of packages_of that lists the names without set(): one per record.
packages_of_records(data) == sorted_str([i \in 1..Len(data) |-> data[i][2]])

\* packages = sorted(list(set(row[1] for row in data)))
packages_of(data) == sorted_str(list_of_strs({ data[i][2] : i \in DOMAIN data }))

\* set(row[2] for row in data if row[1] == package)
version_set(data, package) == { data[i][3] : i \in { k \in DOMAIN data : data[k][2] = package } }

\* newest_items = sorted([row for row in data
\*                        if row[1] == package and row[2] == newest_version])
newest_items_of(data, package, newest_version) ==
    sorted_list(SelectSeq(data, LAMBDA row : row[2] = package /\ row[3] = newest_version))

\* A mutant of pool_dir_of that takes the directory of the first deb listed.
pool_dir_of_first_deb(newest_items) ==
    re_sub_dirname(sorted_list(list_of_tuples(
        { << newest_items[i][4], newest_items[i][5] >> : i \in DOMAIN newest_items }))[1][2])

\* pool_dir = re.sub(r'/[^/]+$', '', newest_items[0][4])
pool_dir_of(newest_items) == re_sub_dirname(newest_items[1][5])

\* A mutant of newest_debs_of without set(): one entry per record.
newest_debs_of_records(newest_items) ==
    sorted_list([i \in 1..Len(newest_items) |-> << newest_items[i][4], newest_items[i][5] >>])

\* newest_debs = sorted(list(set((row[3], row[4]) for row in newest_items)))
newest_debs_of(newest_items) ==
    sorted_list(list_of_tuples(
        { << newest_items[i][4], newest_items[i][5] >> : i \in DOMAIN newest_items }))

Delayed == << "-", "d", "e", "l", "a", "y", "e", "d" >>

\* A mutant of delayed_build_of that tests only the first deb's architecture.
delayed_build_any_count(newest_debs, time_color) ==
    IF newest_debs[1][1] = amd64
    THEN time_color \o << " " >> \o time_color \o Delayed
    ELSE << >>

\* delayed_build: "%s %s-delayed" % (time_color, time_color) when the only
\* deb of the newest version is an amd64 one, "" otherwise.
delayed_build_of(newest_debs, time_color) ==
    IF Len(newest_debs) = 1 /\ newest_debs[1][1] = amd64
    THEN time_color \o << " " >> \o time_color \o Delayed
    ELSE << >>

\* Whether os.stat(path) raises, st being what the file system answers.
stat_raises(st) == ~st.ok

\* The locals of one iteration of the loop over packages, which are the
\* columns of the row it adds.  versions_listed is list(set(...)) of the
\* package's versions, st the answer of os.stat, now the value of now_ts.
iteration(data, package, versions_listed, st, now) ==
    LET versions == sorted_versions(versions_listed)
        newest_version == versions[1]
        newest_items == newest_items_of(data, package, newest_version)
        newest_debs == newest_debs_of(newest_items)
        file_ts == st.st_mtime
        info == get_time_info(now - file_ts)
    IN  [ package |-> package,
          versions |-> versions,
          newest_version |-> newest_version,
          older_versions |-> Join(Tail(versions)),
          newest_items |-> newest_items,
          pool_dir |-> pool_dir_of(newest_items),
          newest_debs |-> newest_debs,
          stat |-> st,
          now_ts |-> now,
          diff_desc |-> info[1],
          time_color |-> info[2],
          delayed_build |-> delayed_build_of(newest_debs, info[2]) ]

(***************************************************************************)
(* The run of the script.                                                  *)
(***************************************************************************)

VARIABLES
    fs,         \* the repository: dists/<dist>/main/<entry>/Packages (never written)
    environ,    \* whether 'REQUEST_METHOD' is in os.environ
    clock,      \* what time.time() answers
    pc,         \* where the script is
    stdout,     \* what has been printed
    dists,      \* dists = sorted(os.listdir('dists'))
    dist_i,     \* the position of the loop over dists (from 1)
    doc,        \* the document under construction
    data,       \* render_dist_html: data
    now_ts,     \* render_dist_html: now_ts
    packages,   \* render_dist_html: packages
    package_i,  \* the position of the loop over packages (from 1)
    arg,        \* the arguments of a function called on its own
    ret         \* and what it returned

vars == << fs, environ, clock, pc, stdout, dists, dist_i, doc, data, now_ts,
           packages, package_i, arg, ret >>

\* The most stanzas the indexes of a distribution hold together.
MaxStanzas == 3

\* The most seconds the clock advances during a run.
MaxTicks == 2

\* time.time() when the script starts.
StartTime == 20000

foo == << "f", "o", "o" >>
bar == << "b", "a", "r" >>
buster == << "b", "u", "s", "t", "e", "r" >>
sid == << "s", "i", "d" >>
source == << "s", "o", "u", "r", "c", "e" >>

v1_0  == << "1", ".", "0" >>
v1_00 == << "1", ".", "0", "0" >>
v0_9  == << "0", ".", "9" >>
v1_1  == << "1", ".", "1" >>

Stanza(p, v, a, f) == [Package |-> p, Version |-> v, Architecture |-> a, Filename |-> f]

\* A stanza without its Filename field.
BadStanza == [Package |-> bar, Version |-> v1_0, Architecture |-> amd64]

\* The stanzas the indexes are filled with: two packages; versions of which
\* two ("1.0", "1.00") compare equal; the architectures amd64, arm64 and all;
\* files in several directories and one in none.
Stanzas ==
    { Stanza(foo, v1_0,  amd64, << "p", "/", "a" >>),
      Stanza(foo, v1_0,  all,   << "q", "/", "f", "/", "b" >>),
      Stanza(foo, v1_00, arm64, << "p", "/", "c" >>),
      Stanza(foo, v0_9,  amd64, << "p", "/", "a" >>),
      Stanza(foo, v1_1,  arm64, << "q", "/", "d" >>),
      Stanza(bar, v1_0,  amd64, << "e" >>),
      Stanza(bar, v1_0,  amd64, << "p", "/", "g" >>),
      BadStanza }

\* The sequences of at most n items of S.
SeqsUpTo(S, n) == UNION { [1..k -> S] : k \in 0..n }

Index(stanzas) == [exists |-> TRUE, stanzas |-> stanzas]
NoPackages == [exists |-> FALSE, stanzas |-> << >>]

ArchEntries == { BinaryDash \o amd64, BinaryDash \o arm64 }

\* dists/<dist>/main with the entries E, the stanzas s split after the k-th
\* between binary-amd64 and binary-arm64.
Tree(E, s, k) ==
    [exists |-> TRUE,
     entries |-> [e \in E |-> IF e = BinaryDash \o amd64 THEN Index(SubSeq(s, 1, k))
                              ELSE IF e = BinaryDash \o arm64 THEN Index(SubSeq(s, k + 1, Len(s)))
                              ELSE NoPackages]]

\* The distributions of at most MaxStanzas stanzas: either index may be
\* missing when it would be empty.
Trees ==
    { Tree(E, s, k) :
        << E, s, k >> \in
            { t \in (SUBSET ArchEntries) \X SeqsUpTo(Stanzas, MaxStanzas) \X (0..MaxStanzas) :
                /\ t[3] <= Len(t[2])
                /\ (t[3] > 0 => (BinaryDash \o amd64) \in t[1])
                /\ (t[3] < Len(t[2]) => (BinaryDash \o arm64) \in t[1]) } }

\* The small distributions of the runs over several: main may be missing,
\* an entry may lack its Packages file, an index holds at most one stanza,
\* and there may be a 'source' entry beside the binary ones.
SmallIndexes ==
    { NoPackages,
      Index(<< Stanza(foo, v1_0, amd64, << "p", "/", "a" >>) >>),
      Index(<< BadStanza >>) }

NoMain == [exists |-> FALSE, entries |-> << >>]

SmallTrees ==
    { NoMain } \cup
    UNION { { [exists |-> TRUE, entries |-> f] : f \in [E -> SmallIndexes] } :
            E \in SUBSET (ArchEntries \cup { source }) }

\* What os.stat answers: no such file, a file three hours old when the
\* script starts, or one a few seconds old.
StatResults ==
    { [ok |-> FALSE, st_mtime |-> 0],
      [ok |-> TRUE, st_mtime |-> StartTime - 10801],
      [ok |-> TRUE, st_mtime |-> StartTime - 7] }

Idle ==
    /\ stdout = << >>
    /\ dists = << >>
    /\ dist_i = 1
    /\ doc = [links |-> << >>, tables |-> << >>]
    /\ data = << >>
    /\ now_ts = 0
    /\ packages = << >>
    /\ package_i = 1
    /\ arg = << >>
    /\ ret = << >>

\* A run over one distribution, of any content within the bounds.
Init ==
    /\ fs \in { [exists |-> TRUE, dists |-> [d \in { buster } |-> t]] : t \in Trees }
    /\ environ = FALSE
    /\ clock = StartTime
    /\ pc = "start"
    /\ Idle

\* A run over up to two small distributions, or without a dists directory.
InitRun ==
    /\ fs \in { [exists |-> FALSE, dists |-> << >>] } \cup
              UNION { { [exists |-> TRUE, dists |-> f] : f \in [D -> SmallTrees] } :
                      D \in SUBSET { buster, sid } }
    /\ environ \in BOOLEAN
    /\ clock = StartTime
    /\ pc = "start"
    /\ Idle

\* An exception nothing catches: the script ends with a traceback, and
\* print(doc) is never reached.
Raise ==
    /\ pc' = "error"
    /\ stdout' = stdout

\* __main__ up to the loop over dists: the CGI header, the listing of dists
\* and the head of the document.
Main ==
    /\ pc = "start"
    /\ IF fs.exists
       THEN /\ dists' = sorted_str(list_of_strs(DOMAIN fs.dists))
            /\ doc' = [links |-> dists', tables |-> << >>]
            /\ pc' = "dists"
       ELSE /\ pc' = "error"
            /\ UNCHANGED << dists, doc >>
    /\ stdout' = IF environ THEN << [kind |-> "header"] >> ELSE << >>
    /\ UNCHANGED << fs, environ, clock, dist_i, data, now_ts, packages, package_i, arg, ret >>

\* The start of one iteration over dists: the table and its two header rows
\* are added to the document, then render_dist_html lists the archs, reads
\* every index into data, takes now_ts and sorts the package names.
RenderLoad ==
    /\ pc = "dists"
    /\ dist_i <= Len(dists)
    /\ LET dist == dists[dist_i]
           tree == fs.dists[dist]
       IN  /\ doc' = [doc EXCEPT !.tables = Append(@, [dist |-> dist, rows |-> << >>, closed |-> FALSE])]
           /\ IF ~tree.exists
              THEN /\ Raise
                   /\ UNCHANGED << data, now_ts, packages, package_i >>
              ELSE \E listing \in Orders(DOMAIN tree.entries) :
                     LET loaded == load_data(tree, archs_of(listing))
                     IN  /\ data' = loaded.data
                         /\ IF loaded.raised
                            THEN /\ Raise
                                 /\ UNCHANGED << now_ts, packages, package_i >>
                            ELSE /\ now_ts' = clock
                                 /\ packages' = packages_of(loaded.data)
                                 /\ package_i' = 1
                                 /\ pc' = "packages"
                                 /\ stdout' = stdout
    /\ UNCHANGED << fs, environ, clock, dists, dist_i, arg, ret >>

\* One iteration of the loop over packages: a row, or the exception of os.stat.
RenderRow ==
    /\ pc = "packages"
    /\ package_i <= Len(packages)
    /\ \E versions_listed \in Orders(version_set(data, packages[package_i])), st \in StatResults :
         IF stat_raises(st)
         THEN /\ doc' = doc
              /\ Raise
              /\ UNCHANGED package_i
         ELSE /\ doc' = [doc EXCEPT !.tables[Len(doc.tables)].rows =
                            Append(@, iteration(data, packages[package_i], versions_listed, st, now_ts))]
              /\ package_i' = package_i + 1
              /\ UNCHANGED << pc, stdout >>
    /\ UNCHANGED << fs, environ, clock, dists, dist_i, data, now_ts, packages, arg, ret >>

\* render_dist_html returns: br() closes the table and the loop moves on.
RenderReturn ==
    /\ pc = "packages"
    /\ package_i > Len(packages)
    /\ doc' = [doc EXCEPT !.tables[Len(doc.tables)].closed = TRUE]
    /\ dist_i' = dist_i + 1
    /\ pc' = "dists"
    /\ UNCHANGED << fs, environ, clock, stdout, dists, data, now_ts, packages, package_i, arg, ret >>

\* print(doc), after the last distribution.
PrintDoc ==
    /\ pc = "dists"
    /\ dist_i > Len(dists)
    /\ stdout' = Append(stdout, [kind |-> "doc", links |-> doc.links, tables |-> doc.tables])
    /\ pc' = "done"
    /\ UNCHANGED << fs, environ, clock, dists, dist_i, doc, data, now_ts, packages, package_i, arg, ret >>

\* A second passes while the script runs.
Tick ==
    /\ pc \in { "start", "dists", "packages" }
    /\ clock < StartTime + MaxTicks
    /\ clock' = clock + 1
    /\ UNCHANGED << fs, environ, pc, stdout, dists, dist_i, doc, data, now_ts, packages, package_i, arg, ret >>

Next == Main \/ RenderLoad \/ RenderRow \/ RenderReturn \/ PrintDoc

Spec == Init /\ [][Next]_vars

NextRun == Next \/ Tick

SpecRun == InitRun /\ [][NextRun]_vars

(***************************************************************************)
(* get_time_info and version_compare called on their own.                  *)
(***************************************************************************)

\* How far around each threshold of get_time_info the ages are taken.
Window == 12

\* The thresholds of get_time_info: two minutes, two hours, two days, sixty days.
Thresholds == { 2 * 60, 2 * 3600, 2 * 24 * 3600, 60 * 24 * 3600 }

\* The ages get_time_info is called with: around 0 (negative ones included)
\* and around every threshold.
DiffInputs == { t + k : t \in Thresholds \cup { 0 }, k \in (-Window)..Window }

InitTime ==
    /\ fs = [exists |-> FALSE, dists |-> << >>]
    /\ environ = FALSE
    /\ clock = StartTime
    /\ pc = "call get_time_info"
    /\ stdout = << >>
    /\ dists = << >>
    /\ dist_i = 1
    /\ doc = [links |-> << >>, tables |-> << >>]
    /\ data = << >>
    /\ now_ts = 0
    /\ packages = << >>
    /\ package_i = 1
    /\ arg \in DiffInputs
    /\ ret = << >>

\* diff_desc, time_color = get_time_info(diff)
CallTime ==
    /\ pc = "call get_time_info"
    /\ ret' = get_time_info(arg)
    /\ pc' = "get_time_info returned"
    /\ UNCHANGED << fs, environ, clock, stdout, dists, dist_i, doc, data, now_ts,
                    packages, package_i, arg >>

NextTime == CallTime

SpecTime == InitTime /\ [][NextTime]_vars

\* The longest of the version strings enumerated in full.
MaxVersionLen == 2

\* Two digits, a letter, the tilde and the two separators.
VersionAlphabet == { "0", "1", "a", "~", ":", "-" }

\* Every string of at most MaxVersionLen characters that starts with a digit.
ShortVersions ==
    { v \in UNION { [1..n -> VersionAlphabet] : n \in 1..MaxVersionLen } : isdigit(v[1]) }

\* Longer versions: with an epoch, a revision, a pre-release, leading zeros
\* or a non-letter ('.', '+'), the examples of the specification among them.
KnownVersions ==
    { << "2", ":", "1", ".", "0" >>, << "1", ":", "9", ".", "0" >>,
      << "1", ".", "0", "~", "r", "c", "1" >>, << "1", ".", "0" >>,
      << "1", ".", "0", "-", "2" >>, << "1", ".", "0", "-", "1" >>,
      << "1", ".", "0", "0" >>, << "0", ":", "1", ".", "0" >>,
      << "1", ".", "0", "-", "0" >>, << "1", ".", "1" >>, << "0", ".", "9" >>,
      << "1", ".", "0", "a" >>, << "1", ".", "0", "+" >>, << "1", ".", "1", "0" >>,
      << "1", "-", "1", "-", "1" >> }

VersionInputs == ShortVersions \cup KnownVersions

InitCmp ==
    /\ fs = [exists |-> FALSE, dists |-> << >>]
    /\ environ = FALSE
    /\ clock = StartTime
    /\ pc = "call version_compare"
    /\ stdout = << >>
    /\ dists = << >>
    /\ dist_i = 1
    /\ doc = [links |-> << >>, tables |-> << >>]
    /\ data = << >>
    /\ now_ts = 0
    /\ packages = << >>
    /\ package_i = 1
    /\ arg \in VersionInputs \X VersionInputs \X VersionInputs
    /\ ret = << >>

\* The comparisons of three versions a, b, c with one another.
CallCmp ==
    /\ pc = "call version_compare"
    /\ ret' = [ab |-> Sign(version_compare(arg[1], arg[2])),
               ba |-> Sign(version_compare(arg[2], arg[1])),
               bc |-> Sign(version_compare(arg[2], arg[3])),
               ac |-> Sign(version_compare(arg[1], arg[3]))]
    /\ pc' = "version_compare returned"
    /\ UNCHANGED << fs, environ, clock, stdout, dists, dist_i, doc, data, now_ts,
                    packages, package_i, arg >>

NextCmp == CallCmp

SpecCmp == InitCmp /\ [][NextCmp]_vars

(***************************************************************************)
(* The properties.                                                         *)
(***************************************************************************)

\* The rows of the table render_dist_html is filling or filled last; data
\* holds the records they were made from.
CurrentRows == IF doc.tables = << >> THEN << >> ELSE doc.tables[Len(doc.tables)].rows

\* Whether that table is complete: render_dist_html returned.
CurrentClosed == doc.tables # << >> /\ doc.tables[Len(doc.tables)].closed

\* The records of data for a package, and those of one version of it.
RecordsOf(package) == { r \in Range(data) : r[2] = package }
RecordsOfVersion(package, version) == { r \in RecordsOf(package) : r[3] = version }

\* C2: get_time_info gives the tier of the first rule that matches, each test
\* strict: tier 1 iff diff > 5184000, tier 2 iff 172800 < diff <= 5184000,
\* tier 3 iff 7200 < diff <= 172800, tier 4 iff 120 < diff <= 7200, tier 5
\* iff diff <= 120 (negative ages included); 7200 gives tier 4, 7201 tier 3.
C2_TierByStrictThresholds ==
    pc = "get_time_info returned" =>
        LET tier == Tier(ret[2])
        IN  /\ tier \in 1..5
            /\ (tier = 1 <=> arg > 5184000)
            /\ (tier = 2 <=> (172800 < arg /\ arg <= 5184000))
            /\ (tier = 3 <=> (7200 < arg /\ arg <= 172800))
            /\ (tier = 4 <=> (120 < arg /\ arg <= 7200))
            /\ (tier = 5 <=> arg <= 120)
            /\ (arg = 7200 => tier = 4)
            /\ (arg = 7201 => tier = 3)

\* An age of exactly two hours was classified, as tier 4.
C2_Witness == pc = "get_time_info returned" /\ arg = 7200 /\ Tier(ret[2]) = 4

\* C9: version_compare is a consistent order: compare(a,b) = LESS iff
\* compare(b,a) = GREATER, and compare(a,b) = LESS and compare(b,c) = LESS
\* imply compare(a,c) = LESS.
C9_ComparatorConsistent ==
    pc = "version_compare returned" =>
        /\ (ret.ab = "LESS" <=> ret.ba = "GREATER")
        /\ (ret.ab = "LESS" /\ ret.bc = "LESS" => ret.ac = "LESS")

\* Three versions in a chain a < b < c were compared: a pre-release, a
\* release with a revision, and a version with an epoch.
C9_Witness ==
    /\ pc = "version_compare returned"
    /\ arg = << << "1", ".", "0", "~", "r", "c", "1" >>,
                << "1", ".", "0", "-", "1" >>,
                << "1", ":", "9", ".", "0" >> >>
    /\ ret.ab = "LESS" /\ ret.bc = "LESS" /\ ret.ac = "LESS" /\ ret.ba = "GREATER"

\* The versions of a row, one after the other, with their comparisons.
Descending(versions, Holds(_)) ==
    \A i \in 1..(Len(versions) - 1) : Holds(version_compare(versions[i], versions[i + 1]))

\* What every row shows of its versions: the newest first, the others joined.
ShowsVersions(row) ==
    /\ row.versions # << >>
    /\ row.newest_version = row.versions[1]
    /\ row.older_versions = Join(Tail(row.versions))

\* C1, as claimed: for every package, [newestVersion] followed by
\* olderVersions holds each distinct version of the package once and is
\* strictly descending: each version compares GREATER than the next.
C1_StrictlyDescending ==
    \A k \in DOMAIN CurrentRows :
        LET row == CurrentRows[k]
        IN  /\ ShowsVersions(row)
            /\ Range(row.versions) = version_set(data, row.package)
            /\ Len(row.versions) = Cardinality(version_set(data, row.package))
            /\ Descending(row.versions, LAMBDA c : c > 0)

\* C1, amended: for every package, [newestVersion] followed by olderVersions
\* holds each distinct version string of the package exactly once and never
\* ascends: no version compares LESS than one listed after it (two distinct
\* strings that compare EQUAL stand side by side), so newestVersion compares
\* GREATER or EQUAL to every entry of olderVersions, which never holds the
\* newestVersion string.
C1_NeverAscending ==
    \A k \in DOMAIN CurrentRows :
        LET row == CurrentRows[k]
        IN  /\ ShowsVersions(row)
            /\ Range(row.versions) = version_set(data, row.package)
            /\ Len(row.versions) = Cardinality(version_set(data, row.package))
            /\ \A i, j \in DOMAIN row.versions :
                   i < j => version_compare(row.versions[i], row.versions[j]) >= 0
            /\ \A j \in 2..Len(row.versions) :
                   /\ version_compare(row.newest_version, row.versions[j]) >= 0
                   /\ row.versions[j] # row.newest_version

\* A row of three versions, two of which compare EQUAL and one lower.
C1_Witness ==
    \E k \in DOMAIN CurrentRows :
        LET v == CurrentRows[k].versions
        IN  /\ Len(v) = 3
            /\ version_compare(v[1], v[2]) = 0
            /\ version_compare(v[2], v[3]) > 0

\* The (targetArch, artifactPath) pair of a record.
Pair(r) == << r[4], r[5] >>

\* C3: for every package, newestArtifacts holds one entry per distinct
\* (targetArch, artifactPath) pair of the records of the package whose
\* version is newestVersion, and nothing else: repeated pairs collapse, and
\* a pair that only records of an older version have does not appear.
C3_NewestArtifactsExact ==
    \A k \in DOMAIN CurrentRows :
        LET row == CurrentRows[k]
            pairs == { Pair(r) : r \in RecordsOfVersion(row.package, row.newest_version) }
        IN  /\ Range(row.newest_debs) = pairs
            /\ Len(row.newest_debs) = Cardinality(pairs)
            /\ \A r \in RecordsOf(row.package) :
                   (r[3] # row.newest_version /\ Pair(r) \notin pairs)
                       => Pair(r) \notin Range(row.newest_debs)

\* A row whose newest version has the same artifact in the indexes of two
\* source architectures, listed once, beside an older version left out.
C3_Witness ==
    \E k \in DOMAIN CurrentRows :
        LET row == CurrentRows[k]
        IN  /\ \E r1, r2 \in RecordsOfVersion(row.package, row.newest_version) :
                   r1[1] # r2[1] /\ Pair(r1) = Pair(r2)
            /\ Len(row.newest_debs) = 1
            /\ \E r \in RecordsOf(row.package) :
                   r[3] # row.newest_version /\ Pair(r) \notin Range(row.newest_debs)

\* C4: a row is marked delayed iff the newest version of its package has
\* exactly one distinct artifact and that one targets amd64; not with two or
\* more artifacts (all amd64 or not), not with a single arm64 or all one.
C4_DelayedIffSingleAmd64 ==
    \A k \in DOMAIN CurrentRows :
        LET row == CurrentRows[k]
            pairs == { Pair(r) : r \in RecordsOfVersion(row.package, row.newest_version) }
        IN  /\ (row.delayed_build # << >>) <=>
                   (Cardinality(pairs) = 1 /\ \A q \in pairs : q[1] = amd64)
            /\ row.delayed_build \in
                   { << >>, row.time_color \o << " " >> \o row.time_color \o Delayed }

\* A table with a delayed row (one amd64 artifact) and a row that is not
\* delayed although its two artifacts are both amd64.
C4_Witness ==
    /\ \E k \in DOMAIN CurrentRows :
           CurrentRows[k].delayed_build # << >> /\ Len(CurrentRows[k].newest_debs) = 1
    /\ \E k \in DOMAIN CurrentRows :
           /\ CurrentRows[k].delayed_build = << >>
           /\ Len(CurrentRows[k].newest_debs) = 2
           /\ \A i \in 1..2 : CurrentRows[k].newest_debs[i][1] = amd64

\* C8: the table of a distribution has one row per distinct package name of
\* its records, whatever their architectures and versions, in strictly
\* ascending order of name; no records, no rows.
C8_OneRowPerPackageAscending ==
    LET names == [k \in DOMAIN CurrentRows |-> CurrentRows[k].package]
    IN  /\ \A i, j \in DOMAIN names : i < j => StrLess(names[i], names[j])
        /\ Range(names) \subseteq { r[2] : r \in Range(data) }
        /\ CurrentClosed =>
               /\ Range(names) = { r[2] : r \in Range(data) }
               /\ Len(names) = Cardinality({ r[2] : r \in Range(data) })
               /\ (data = << >> => CurrentRows = << >>)

\* A complete table of two rows made from three records.
C8_Witness ==
    /\ CurrentClosed
    /\ Len(data) = 3
    /\ Len(CurrentRows) = 2
    /\ CurrentRows[1].package = bar /\ CurrentRows[2].package = foo

\* Whether dir is path without its final '/'-delimited segment; a path
\* without a '/' or ending in one has no such segment and is kept whole.
IsDirname(dir, path) ==
    IF \E i \in 1..(Len(path) - 1) : path[i] = "/" /\ \A k \in (i + 1)..Len(path) : path[k] # "/"
    THEN \E i \in 1..(Len(path) - 1) :
             /\ path[i] = "/"
             /\ \A k \in (i + 1)..Len(path) : path[k] # "/"
             /\ dir = SubSeq(path, 1, i - 1)
    ELSE dir = path

\* C10, as claimed: poolDirectory is the directory of the first entry of
\* newestArtifacts (sorted by targetArch), also when the records of the
\* newest version come from several source architectures and directories.
C10_PoolDirOfFirstArtifact ==
    \A k \in DOMAIN CurrentRows :
        IsDirname(CurrentRows[k].pool_dir, CurrentRows[k].newest_debs[1][2])

\* C10, amended: poolDirectory is the directory of the artifact of the first
\* of the newest version's records in ascending order of whole records
\* (sourceArch, name, version, targetArch, artifactPath), which is not always
\* the first entry of newestArtifacts.
C10_PoolDirOfFirstRecord ==
    \A k \in DOMAIN CurrentRows :
        LET row == CurrentRows[k]
            records == RecordsOfVersion(row.package, row.newest_version)
            first == CHOOSE r \in records : \A q \in records : ~ListLess(q, r)
        IN  IsDirname(row.pool_dir, first[5])

\* A row whose newest version was read from two source architectures, into
\* artifacts of different directories, the first artifact listed not being
\* the one the pool directory comes from.
C10_Witness ==
    \E k \in DOMAIN CurrentRows :
        LET row == CurrentRows[k]
        IN  /\ \E r1, r2 \in RecordsOfVersion(row.package, row.newest_version) : r1[1] # r2[1]
            /\ Len(row.newest_debs) = 2
            /\ row.pool_dir = << "p" >>
            /\ row.newest_debs[1][2] = << "q", "/", "f", "/", "b" >>

\* The record collections that hold the records of data in another order.
Reordered(records) ==
    { [i \in DOMAIN records |-> records[f[i]]] : f \in Permutations(DOMAIN records) }

\* C6: aggregation and selection do not depend on the order of the input:
\* any reordering of the records, with the versions of a package listed in
\* any order before they are sorted, gives the same package order and the
\* same row (newest version, older versions, artifacts, pool directory),
\* also when two distinct versions compare EQUAL.
C6_OrderIndependent ==
    \A k \in DOMAIN CurrentRows :
        LET row == CurrentRows[k]
        IN  \A records \in Reordered(data) :
                /\ packages_of(records) = packages_of(data)
                /\ \A versions_listed \in Orders(version_set(records, row.package)) :
                       iteration(records, row.package, versions_listed, row.stat, row.now_ts) = row

\* Every row of the document, whatever its table.
AllRows == UNION { Range(doc.tables[t].rows) : t \in DOMAIN doc.tables }

\* C5: every row of a run has its age computed against the same now,
\* whether the rows are of one distribution or of several, and also when
\* the clock advances during the run.
C5_SameNowForEveryRow ==
    \A r1, r2 \in AllRows :
        /\ r1.now_ts = r2.now_ts
        /\ << r1.diff_desc, r1.time_color >> = get_time_info(r1.now_ts - r1.stat.st_mtime)

\* The documents printed so far.
Printed == { stdout[i] : i \in { k \in DOMAIN stdout : stdout[k].kind = "doc" } }

\* Whether every index of a distribution can be read in full: main exists,
\* each binary-<arch> entry has its Packages file, each stanza its four fields.
Intact(dist) ==
    /\ fs.dists[dist].exists
    /\ \A e \in DOMAIN fs.dists[dist].entries :
           startswith(e, Binary) =>
               /\ startswith(e, BinaryDash)
               /\ fs.dists[dist].entries[e].exists
               /\ \A i \in DOMAIN fs.dists[dist].entries[e].stanzas :
                      StanzaFields \subseteq DOMAIN fs.dists[dist].entries[e].stanzas[i]

\* The package names in the indexes of an intact distribution.
NamesIn(dist) ==
    UNION { { fs.dists[dist].entries[e].stanzas[i]["Package"] :
                i \in DOMAIN fs.dists[dist].entries[e].stanzas } :
            e \in { x \in DOMAIN fs.dists[dist].entries : startswith(x, Binary) } }

\* C7: after any failure (no dists directory, no main directory, an index
\* that cannot be opened, a stanza without one of its fields, an artifact
\* that cannot be stat'ed) the run has ended in error and no table was
\* printed; a printed document has one complete table per distribution,
\* each made from all the records of an intact distribution, and every row
\* has the age of a file that was stat'ed.
C7_NoOutputAfterFailure ==
    /\ pc = "error" => Printed = {}
    /\ (\E d \in DOMAIN fs.dists : ~Intact(d)) => Printed = {}
    /\ ~fs.exists => Printed = {}
    /\ \A printed \in Printed :
           /\ pc = "done"
           /\ [t \in DOMAIN printed.tables |-> printed.tables[t].dist]
                  = sorted_str(list_of_strs(DOMAIN fs.dists))
           /\ \A t \in DOMAIN printed.tables :
                  LET table == printed.tables[t]
                  IN  /\ table.closed
                      /\ Intact(table.dist)
                      /\ { table.rows[k].package : k \in DOMAIN table.rows } = NamesIn(table.dist)
                      /\ \A k \in DOMAIN table.rows :
                             /\ table.rows[k].stat.ok
                             /\ << table.rows[k].diff_desc, table.rows[k].time_color >>
                                    = get_time_info(table.rows[k].now_ts - table.rows[k].stat.st_mtime)

\* The run failed in its second distribution, after the table of the first
\* was complete, and printed no document.
C7_Witness ==
    /\ pc = "error"
    /\ Len(doc.tables) = 2
    /\ doc.tables[1].closed /\ Len(doc.tables[1].rows) = 1
    /\ ~doc.tables[2].closed
    /\ Printed = {}

====
